---- MODULE Spec2Model ----
(***************************************************************************)
(* Model of chicago_air_quality_analysis.py: the batch pipeline            *)
(*   main -> load_and_preprocess_data -> create_premium_visualizations     *)
(*        -> generate_professional_report                                  *)
(* A cell of a table is an option: {} is a missing value (NaN / NaT) and   *)
(* {v} is the value v.  A float is {} (NaN) or {<<num, den>>}, the exact   *)
(* quotient num / den.  The plotting libraries are collaborators that      *)
(* render what they are given; what is modelled of a chart is the file it  *)
(* writes and the data the code computes for it.                           *)
(***************************************************************************)
EXTENDS Integers, Sequences, FiniteSets, TLC

VARIABLES
    fileExists,     \* chicago_air_pollution.csv is present
    header,         \* the set of column names of the csv file
    rawRows,        \* the rows of the csv file, in file order
    pc,             \* the next step of main
    error,          \* the exception that ended the run, or "none"
    air_data,       \* the DataFrame main holds: [cols, rows]
    summary,        \* what main printed about the loaded data ({} before)
    seasonal_avg,   \* the seasonal averages the bar chart drew ({} before)
    written,        \* the output files written so far, in order
    report,         \* the content of the report file ({} while not written)
    obs,            \* resampler input: observed day |-> value
    filled          \* resampler output ({} before it ran)

vars == <<fileExists, header, rawRows, pc, error, air_data, summary,
          seasonal_avg, written, report, obs, filled>>

pipelineVars == <<fileExists, header, rawRows, pc, error, air_data, summary,
                  seasonal_avg, written, report>>

(***************************** options and floats *************************)

NA == {}

Some(v) == {v}

Get(x) == CHOOSE v \in x : TRUE

NaN == {}

Quot(n, d) == {<<n, d>>}

\* a / b for a numpy int64 a and a python int b: 0 / 0 and n / 0 give
\* nan or inf with a (suppressed) warning, never an exception
Divide(a, b) == IF b = 0 THEN NaN ELSE Quot(a, b)

Times(x, k) == {<<q[1] * k, q[2]>> : q \in x}

\* comparisons of floats with an integer; every comparison with NaN is false
FloatEq(x, k) == \E q \in x : q[1] = k * q[2]

FloatLe(x, k) == \E q \in x : q[1] <= k * q[2]

FloatGe(x, k) == \E q \in x : q[1] >= k * q[2]

(********************************* dates **********************************)

Date(y, m, d) == [year |-> y, month |-> m, day |-> d]

NaT == {}

DateLe(a, b) ==
    \/ a.year < b.year
    \/ a.year = b.year /\ a.month < b.month
    \/ a.year = b.year /\ a.month = b.month /\ a.day <= b.day

\* Series.dt.year / Series.dt.month: NaN for NaT
DtYear(cell) == {d.year : d \in cell}

DtMonth(cell) == {d.month : d \in cell}

(******************************** the input *******************************)

StartYear == 2000

EndYear == 2002

SrcColumns == <<"pm25tmean2", "pm10tmean2", "o3tmean2", "no2tmean2">>

pollutants == <<"pm25", "pm10", "o3", "no2">>

SeqToSet(s) == {s[i] : i \in 1..Len(s)}

AllColumns == {"date"} \cup SeqToSet(SrcColumns)

MaxRows == 4

Reading(a, b, c, d) ==
    [pm25tmean2 |-> a, pm10tmean2 |-> b, o3tmean2 |-> c, no2tmean2 |-> d]

CsvRow(date, r) ==
    [c \in AllColumns |-> IF c = "date" THEN date ELSE r[c]]

\* the rows a file is made of: dates on both sides of each year bound, an
\* empty date cell, every season, one month in two years, and readings with
\* and without missing values.  A file is up to MaxRows different rows of
\* the pool, in any order.
RowPool ==
    LET R0 == Reading(NA, NA, NA, NA)
        R1 == Reading(Some(2), NA, Some(1), Some(3))
        R2 == Reading(Some(4), Some(5), NA, Some(3))
    IN  { CsvRow(NaT, R1),
          CsvRow(Some(Date(1999, 12, 31)), R1),
          CsvRow(Some(Date(2003, 1, 1)), R2),
          CsvRow(Some(Date(2000, 1, 1)), R1),
          CsvRow(Some(Date(2002, 12, 31)), R2),
          CsvRow(Some(Date(2000, 4, 15)), R2),
          CsvRow(Some(Date(2001, 7, 4)), R0),
          CsvRow(Some(Date(2002, 7, 4)), R2),
          CsvRow(Some(Date(2002, 10, 31)), R1) }

\* the headers a file may have: complete, without the date column, with
\* PM2.5 as the only pollutant, and with one pollutant column missing
HeaderPool ==
    { AllColumns,
      AllColumns \ {"date"},
      {"date", "pm25tmean2"},
      AllColumns \ {"o3tmean2"} }

Restrict(f, S) == [c \in S |-> f[c]]

NoTable == [cols |-> <<>>, rows |-> <<>>]

InitFile ==
    /\ fileExists \in BOOLEAN
    /\ IF fileExists
       THEN /\ header \in HeaderPool
            /\ \E n \in 0..MaxRows : \E rs \in [1..n -> RowPool] :
                 /\ \A i, j \in 1..n : rs[i] = rs[j] => i = j
                 /\ rawRows = [i \in 1..n |-> Restrict(rs[i], header)]
       ELSE /\ header = {}
            /\ rawRows = <<>>

InitRun ==
    /\ pc = "load"
    /\ error = "none"
    /\ air_data = NoTable
    /\ summary = {}
    /\ seasonal_avg = {}
    /\ written = <<>>
    /\ report = {}

Init ==
    /\ InitFile
    /\ InitRun
    /\ obs = <<>>
    /\ filled = {}

(*********************** load_and_preprocess_data *************************)

\* the filter with the upper bound taken as exclusive
InYearRangeExclusiveEnd(row) ==
    /\ \E y \in DtYear(row["date"]) : y >= StartYear
    /\ \E y \in DtYear(row["date"]) : y < EndYear

\* (df['date'].dt.year >= 2000) & (df['date'].dt.year <= 2002)
InYearRange(row) ==
    /\ \E y \in DtYear(row["date"]) : y >= StartYear
    /\ \E y \in DtYear(row["date"]) : y <= EndYear

CanonicalCols == <<"date">> \o pollutants

\* df[[...]].copy(), columns renamed, date back as the first column
CanonicalRow(row) ==
    [c \in SeqToSet(CanonicalCols) |->
        IF c = "date" THEN row["date"]
        ELSE row[SrcColumns[CHOOSE i \in 1..Len(pollutants) : pollutants[i] = c]]]

LoadResult(rows) ==
    LET df == SelectSeq(rows, InYearRange)
    IN  [cols |-> CanonicalCols,
         rows |-> [i \in 1..Len(df) |-> CanonicalRow(df[i])]]

Abort(e) ==
    /\ pc' = "aborted"
    /\ error' = e

\* a loader that swallows its errors and hands back an empty table
LoadSwallowingErrors ==
    /\ pc = "load"
    /\ IF fileExists /\ AllColumns \subseteq header
       THEN air_data' = LoadResult(rawRows)
       ELSE air_data' = [cols |-> CanonicalCols, rows |-> <<>>]
    /\ pc' = "summary"
    /\ UNCHANGED <<fileExists, header, rawRows, error, summary, seasonal_avg,
                   written, report, obs, filled>>

Load ==
    /\ pc = "load"
    /\ IF ~fileExists
       THEN Abort("FileNotFoundError") /\ UNCHANGED air_data
       ELSE IF "date" \notin header
       THEN Abort("ValueError") /\ UNCHANGED air_data
       ELSE IF \E i \in 1..Len(SrcColumns) : SrcColumns[i] \notin header
       THEN Abort("KeyError") /\ UNCHANGED air_data
       ELSE /\ air_data' = LoadResult(rawRows)
            /\ pc' = "summary"
            /\ UNCHANGED error
    /\ UNCHANGED <<fileExists, header, rawRows, summary, seasonal_avg,
                   written, report, obs, filled>>

(***************************** pandas helpers *****************************)

Column(t, c) == [i \in 1..Len(t.rows) |-> t.rows[i][c]]

\* Series.count(): the number of non-missing cells
Count(series) == Cardinality({i \in 1..Len(series) : series[i] # NA})

NonMissing(series) ==
    LET keep(x) == x # NA
        xs == SelectSeq(series, keep)
    IN  [i \in 1..Len(xs) |-> Get(xs[i])]

RECURSIVE Sum(_)
Sum(xs) == IF Len(xs) = 0 THEN 0 ELSE xs[1] + Sum(Tail(xs))

\* a mean that counts a missing cell as 0
MeanZeroFilled(series) ==
    IF Len(series) = 0 THEN NaN ELSE Quot(Sum(NonMissing(series)), Len(series))

\* Series.mean(): missing cells are skipped; NaN when nothing is left
Mean(series) ==
    LET xs == NonMissing(series)
    IN  IF Len(xs) = 0 THEN NaN ELSE Quot(Sum(xs), Len(xs))

\* Series.max() / Series.min() of numbers
Max(series) ==
    LET xs == SeqToSet(NonMissing(series))
    IN  {x \in xs : \A y \in xs : y <= x}

Min(series) ==
    LET xs == SeqToSet(NonMissing(series))
    IN  {x \in xs : \A y \in xs : x <= y}

\* Series.min() / Series.max() of dates: NaT for an empty column
DateMin(series) ==
    LET xs == SeqToSet(NonMissing(series))
    IN  {x \in xs : \A y \in xs : DateLe(x, y)}

DateMax(series) ==
    LET xs == SeqToSet(NonMissing(series))
    IN  {x \in xs : \A y \in xs : DateLe(y, x)}

\* air_data[c] = series: a new column is appended, an existing one
\* overwritten, in the DataFrame object itself
WithColumn(t, c, series) ==
    [cols |-> IF c \in SeqToSet(t.cols) THEN t.cols ELSE Append(t.cols, c),
     rows |-> [i \in 1..Len(t.rows) |->
                  [k \in DOMAIN t.rows[i] \cup {c} |->
                      IF k = c THEN series[i] ELSE t.rows[i][k]]]]

(********************* main: the availability printout ********************)

\* (count / len(air_data)) * 100
Percentage(count, total) == Times(Divide(count, total), 100)

Availability(t) ==
    [p \in SeqToSet(pollutants) |->
        [count |-> Count(Column(t, p)),
         percentage |-> Percentage(Count(Column(t, p)), Len(t.rows))]]

PrintSummary ==
    /\ pc = "summary"
    /\ summary' = Some([days |-> Len(air_data.rows),
                        first |-> DateMin(Column(air_data, "date")),
                        last |-> DateMax(Column(air_data, "date")),
                        availability |-> Availability(air_data)])
    /\ pc' = "timeseries"
    /\ UNCHANGED <<fileExists, header, rawRows, error, air_data,
                   seasonal_avg, written, report, obs, filled>>

(********************* create_premium_visualizations **********************)

\* 1. the multi-panel time series: reads air_data, writes the image
PlotTimeSeries ==
    /\ pc = "timeseries"
    /\ written' = Append(written, "premium_pollutants_timeseries.png")
    /\ pc' = "joyplot"
    /\ UNCHANGED <<fileExists, header, rawRows, error, air_data, summary,
                   seasonal_avg, report, obs, filled>>

month_order ==
    <<"January", "February", "March", "April", "May", "June", "July",
      "August", "September", "October", "November", "December">>

\* air_data['date'].dt.month
MonthSeries(t) == [i \in 1..Len(t.rows) |-> DtMonth(t.rows[i]["date"])]

\* air_data['date'].dt.month_name(), as a categorical in calendar order
MonthNameSeries(t) ==
    [i \in 1..Len(t.rows) |-> {month_order[m] : m \in DtMonth(t.rows[i]["date"])}]

\* a joyplot step that also drops, in place, the rows without a PM2.5 value
PlotJoyplotDroppingRows ==
    /\ pc = "joyplot"
    /\ LET hasPm25(r) == r["pm25"] # NA
           kept == [cols |-> air_data.cols,
                    rows |-> SelectSeq(air_data.rows, hasPm25)]
       IN  air_data' = WithColumn(WithColumn(kept, "month", MonthSeries(kept)),
                                  "month_name", MonthNameSeries(kept))
    /\ written' = Append(written, "premium_monthly_pm25_distribution.png")
    /\ pc' = "seasonal"
    /\ UNCHANGED <<fileExists, header, rawRows, error, summary,
                   seasonal_avg, report, obs, filled>>

\* 2. the joyplot: adds the columns month and month_name to air_data
PlotJoyplot ==
    /\ pc = "joyplot"
    /\ air_data' = WithColumn(WithColumn(air_data, "month", MonthSeries(air_data)),
                              "month_name", MonthNameSeries(air_data))
    /\ written' = Append(written, "premium_monthly_pm25_distribution.png")
    /\ pc' = "seasonal"
    /\ UNCHANGED <<fileExists, header, rawRows, error, summary,
                   seasonal_avg, report, obs, filled>>

\* the dict given to .map() in create_premium_visualizations
ChartSeasonOf(m) ==
    CASE m \in {12, 1, 2} -> "Winter"
      [] m \in {3, 4, 5} -> "Spring"
      [] m \in {6, 7, 8} -> "Summer"
      [] m \in {9, 10, 11} -> "Fall"

\* air_data['date'].dt.month.map({...}) in create_premium_visualizations
ChartSeasonSeries(t) ==
    [i \in 1..Len(t.rows) |-> {ChartSeasonOf(m) : m \in DtMonth(t.rows[i]["date"])}]

\* groupby sorts its keys: the season labels in lexicographic order
SortedSeasons == <<"Fall", "Spring", "Summer", "Winter">>

\* t.groupby('season')[pollutants].mean(): one row per season that occurs
GroupBySeasonMean(t) ==
    LET present == UNION SeqToSet(Column(t, "season"))
        inIndex(s) == s \in present
        group(s) ==
            LET member(r) == r["season"] = Some(s)
            IN  SelectSeq(t.rows, member)
    IN  [index |-> SelectSeq(SortedSeasons, inIndex),
         mean |-> [s \in present |->
                     [p \in SeqToSet(pollutants) |->
                         Mean([i \in 1..Len(group(s)) |-> group(s)[i][p]])]]]

\* 3. the seasonal bar chart: adds the column season, draws one group of
\* bars per row of seasonal_avg, labelled by seasonal_avg.index
PlotSeasonal ==
    /\ pc = "seasonal"
    /\ air_data' = WithColumn(air_data, "season", ChartSeasonSeries(air_data))
    /\ seasonal_avg' = Some(GroupBySeasonMean(air_data'))
    /\ written' = Append(written, "premium_seasonal_analysis.png")
    /\ pc' = "report"
    /\ UNCHANGED <<fileExists, header, rawRows, error, summary, report,
                   obs, filled>>

(********************** generate_professional_report **********************)

\* a season dict cut by calendar quarter shifted by one: December in Fall
ReportSeasonOfDecemberFall(m) ==
    CASE m \in {1, 2} -> "Winter"
      [] m \in {3, 4, 5} -> "Spring"
      [] m \in {6, 7, 8} -> "Summer"
      [] m \in {9, 10, 11, 12} -> "Fall"

\* the dict given to .map() in generate_professional_report
ReportSeasonOf(m) ==
    CASE m \in {12, 1, 2} -> "Winter"
      [] m \in {3, 4, 5} -> "Spring"
      [] m \in {6, 7, 8} -> "Summer"
      [] m \in {9, 10, 11} -> "Fall"

\* air_data['date'].dt.month.map({...}) in generate_professional_report
ReportSeasonSeries(t) ==
    [i \in 1..Len(t.rows) |-> {ReportSeasonOf(m) : m \in DtMonth(t.rows[i]["date"])}]

\* for season in ['Winter', 'Spring', 'Summer', 'Fall']
ReportSeasons == <<"Winter", "Spring", "Summer", "Fall">>

\* the key findings: only pollutants with at least one value
\* (the standard deviation is left out of the model)
Findings(t) ==
    LET has(p) == Count(Column(t, p)) > 0
        ps == SelectSeq(pollutants, has)
    IN  [i \in 1..Len(ps) |->
            [pollutant |-> ps[i],
             mean |-> Mean(Column(t, ps[i])),
             max |-> Max(Column(t, ps[i])),
             min |-> Min(Column(t, ps[i]))]]

\* the lines of one season: a pollutant whose average is NaN gets no line
SeasonLines(avg, season) ==
    LET shown(p) == avg.mean[season][p] # NaN
        ps == SelectSeq(pollutants, shown)
    IN  [i \in 1..Len(ps) |->
            [pollutant |-> ps[i], average |-> avg.mean[season][ps[i]]]]

\* seasonal_avg.loc[season, pollutant] raises KeyError for a season that is
\* not in the index; the file is written only after the whole text is built
GenerateReport ==
    /\ pc = "report"
    /\ air_data' = WithColumn(air_data, "season", ReportSeasonSeries(air_data))
    /\ LET avg == GroupBySeasonMean(air_data')
       IN  IF \E i \in 1..Len(ReportSeasons) :
                  ReportSeasons[i] \notin SeqToSet(avg.index)
           THEN Abort("KeyError") /\ UNCHANGED <<written, report>>
           ELSE /\ report' =
                     Some([first |-> DateMin(Column(air_data, "date")),
                           last |-> DateMax(Column(air_data, "date")),
                           days |-> Len(air_data.rows),
                           availability |-> Availability(air_data),
                           findings |-> Findings(air_data),
                           seasonal |->
                               [i \in 1..Len(ReportSeasons) |->
                                   [season |-> ReportSeasons[i],
                                    lines |-> SeasonLines(avg, ReportSeasons[i])]]])
                /\ written' = Append(written, "chicago_air_quality_report.md")
                /\ pc' = "finish"
                /\ UNCHANGED error
    /\ UNCHANGED <<fileExists, header, rawRows, summary, seasonal_avg,
                   obs, filled>>

\* main's closing printout
Finish ==
    /\ pc = "finish"
    /\ pc' = "done"
    /\ UNCHANGED <<fileExists, header, rawRows, error, air_data, summary,
                   seasonal_avg, written, report, obs, filled>>

Next ==
    \/ Load
    \/ PrintSummary
    \/ PlotTimeSeries
    \/ PlotJoyplot
    \/ PlotSeasonal
    \/ GenerateReport
    \/ Finish

Spec == Init /\ [][Next]_vars

(************************* Gap-Filling Resampler **************************)
(* The resampler belongs to the pipeline variant that is not part of this *)
(* source file; it is modelled from its contract: a dense daily index     *)
(* from the first to the last observed day, and linear interpolation      *)
(* across gaps of at most MaxGap consecutive missing days.                *)

MaxGap == 7

MaxDay == 10

GapValues == {10, 40}

FirstDay(o) == CHOOSE d \in DOMAIN o : \A e \in DOMAIN o : d <= e

LastDay(o) == CHOOSE d \in DOMAIN o : \A e \in DOMAIN o : e <= d

PrevObserved(o, d) ==
    CHOOSE a \in DOMAIN o : a < d /\ \A e \in DOMAIN o : e < d => e <= a

NextObserved(o, d) ==
    CHOOSE b \in DOMAIN o : b > d /\ \A e \in DOMAIN o : e > d => b <= e

\* the bound taken one day too long
FillableOffByOne(gap) == gap <= MaxGap + 1

\* a gap is filled only when it is at most MaxGap days long
Fillable(gap) == gap <= MaxGap

\* the value of day d of the dense series
FillDay(o, d) ==
    IF d \in DOMAIN o THEN Quot(o[d], 1)
    ELSE LET a == PrevObserved(o, d)
             b == NextObserved(o, d)
         IN  IF Fillable(b - a - 1)
             THEN Quot(o[a] * (b - d) + o[b] * (d - a), b - a)
             ELSE NaN

Resample(o) == [d \in FirstDay(o)..LastDay(o) |-> FillDay(o, d)]

InitGap ==
    /\ fileExists = FALSE
    /\ header = {}
    /\ rawRows = <<>>
    /\ InitRun
    /\ \E D \in (SUBSET (1..MaxDay)) \ {{}} : obs \in [D -> GapValues]
    /\ filled = {}

GapFill ==
    /\ filled = {}
    /\ filled' = Some(Resample(obs))
    /\ UNCHANGED <<pipelineVars, obs>>

NextGap ==
    \/ GapFill

SpecGap == InitGap /\ [][NextGap]_vars

(********************************* claims *********************************)

Loaded == air_data.cols # <<>>

MissingPollutants == {"pm10", "o3", "no2"}

PrintedAvailability == {x.availability : x \in summary}

ReportedAvailability == {x.availability : x \in report}

RECURSIVE KeptRows(_)
KeptRows(rows) ==
    IF Len(rows) = 0 THEN <<>>
    ELSE (IF /\ rows[1]["date"] # {}
             /\ Get(rows[1]["date"]).year \in 2000..2002
          THEN <<rows[1]>> ELSE <<>>) \o KeptRows(Tail(rows))

\* C1: the table the loader returns holds exactly the input rows whose date
\* has a calendar year in 2000..2002 (both ends included), in file order,
\* with their readings under the canonical column names.
C1_TemporalFilter ==
    pc = "summary" =>
        LET e == KeptRows(rawRows)
        IN  /\ Len(air_data.rows) = Len(e)
            /\ \A i \in 1..Len(e) :
                 /\ air_data.rows[i]["date"] = e[i]["date"]
                 /\ \A k \in 1..Len(pollutants) :
                      air_data.rows[i][pollutants[k]] = e[i][SrcColumns[k]]

C1_Witness ==
    /\ pc = "summary"
    /\ Len(rawRows) = 4
    /\ Len(air_data.rows) = 2
    /\ \E i \in 1..4 : rawRows[i]["date"] = NaT
    /\ \E i \in 1..4 : 2003 \in DtYear(rawRows[i]["date"])
    /\ air_data.rows[1]["date"] = Some(Date(2002, 12, 31))
    /\ air_data.rows[2]["date"] = Some(Date(2000, 1, 1))

\* C2: a file with a date column and a PM2.5 column but no pm10, o3 or no2
\* column raises no exception, those three fields are undefined in every
\* record, the run completes and the report states 0% coverage for them.
C2_MissingColumnsDegrade ==
    (fileExists /\ header = {"date", "pm25tmean2"}) =>
        /\ error = "none"
        /\ pc # "aborted"
        /\ \A i \in 1..Len(air_data.rows) : \A p \in MissingPollutants :
             air_data.rows[i][p] = NA
        /\ \A a \in ReportedAvailability : \A p \in MissingPollutants :
             FloatEq(a[p].percentage, 0)

\* C3: nothing is written unless the loader returned a table; a run whose
\* file is missing or has no date column ends in the loader with no chart
\* and no report.
C3_NoPartialOutput ==
    /\ (written # <<>> \/ report # {}) =>
          (fileExists /\ "date" \in header /\ Loaded)
    /\ (~fileExists \/ "date" \notin header) =>
          (pc \in {"load", "aborted"} /\ written = <<>> /\ report = {})

C3_Witness ==
    /\ pc = "aborted"
    /\ error = "ValueError"
    /\ Len(rawRows) > 0
    /\ written = <<>>
    /\ report = {}

\* C4: when no record falls in the year range, no stage fails and the
\* coverage of every pollutant is 0, printed and in the report.
C4_EmptySeriesGraceful ==
    (Loaded /\ Len(air_data.rows) = 0) =>
        /\ error = "none"
        /\ \A a \in PrintedAvailability \cup ReportedAvailability :
             \A p \in SeqToSet(pollutants) : FloatEq(a[p].percentage, 0)
        /\ pc \in {"finish", "done"} => report # {}

CoverageInBounds(a, total) ==
    \A p \in SeqToSet(pollutants) :
        /\ FloatGe(a[p].percentage, 0)
        /\ FloatLe(a[p].percentage, 100)
        /\ FloatEq(a[p].percentage, 0) <=> (a[p].count = 0)
        /\ FloatEq(a[p].percentage, 100) <=> (a[p].count = total)

\* C5: every coverage percentage, printed or in the report, is in [0, 100],
\* is 0 exactly when the count is 0 and 100 exactly when the count equals
\* the number of records.
C5_CoverageBounds ==
    /\ \A x \in summary : CoverageInBounds(x.availability, x.days)
    /\ \A x \in report : CoverageInBounds(x.availability, x.days)

\* C6: the seasonal averages of the bar chart and the seasonal section of
\* the report always have the four keys Winter, Spring, Summer, Fall in
\* that order, also when a season has no record.
C6_FourSeasonsInOrder ==
    /\ \A a \in seasonal_avg : a.index = <<"Winter", "Spring", "Summer", "Fall">>
    /\ (seasonal_avg # {} /\ pc \in {"finish", "done", "aborted"}) =>
          /\ error = "none"
          /\ \A x \in report :
               [i \in 1..Len(x.seasonal) |-> x.seasonal[i].season]
                   = <<"Winter", "Spring", "Summer", "Fall">>

ExpectedSeason(m) ==
    IF m \in {12, 1, 2} THEN "Winter"
    ELSE IF m \in {3, 4, 5} THEN "Spring"
    ELSE IF m \in {6, 7, 8} THEN "Summer"
    ELSE "Fall"

HasSeason == "season" \in SeqToSet(air_data.cols)

\* C7: the season of a record depends on its month alone: 12, 1, 2 are
\* Winter, 3..5 Spring, 6..8 Summer, 9..11 Fall; the chart's mapping and the
\* report's mapping agree on every month.
C7_SeasonByMonth ==
    /\ \A m \in 1..12 :
         /\ ChartSeasonOf(m) = ExpectedSeason(m)
         /\ ReportSeasonOf(m) = ChartSeasonOf(m)
    /\ HasSeason =>
         \A i \in 1..Len(air_data.rows) :
            /\ air_data.rows[i]["season"] =
                  Some(ExpectedSeason(Get(air_data.rows[i]["date"]).month))
            /\ \A j \in 1..Len(air_data.rows) :
                  Get(air_data.rows[i]["date"]).month
                      = Get(air_data.rows[j]["date"]).month
                  => air_data.rows[i]["season"] = air_data.rows[j]["season"]

C7_Witness ==
    /\ HasSeason
    /\ pc = "aborted"
    /\ \E i, j \in 1..Len(air_data.rows) :
         /\ Get(air_data.rows[i]["date"]).month = Get(air_data.rows[j]["date"]).month
         /\ Get(air_data.rows[i]["date"]).year # Get(air_data.rows[j]["date"]).year
    /\ \E i, j \in 1..Len(air_data.rows) :
         /\ Get(air_data.rows[i]["date"]).month = 12
         /\ Get(air_data.rows[j]["date"]).month = 1

MonthsOfSeason(s) ==
    IF s = "Winter" THEN {12, 1, 2}
    ELSE IF s = "Spring" THEN {3, 4, 5}
    ELSE IF s = "Summer" THEN {6, 7, 8}
    ELSE {9, 10, 11}

RowsIn(s) ==
    {i \in 1..Len(air_data.rows) :
        Get(air_data.rows[i]["date"]).month \in MonthsOfSeason(s)}

WithValue(s, p) == {i \in RowsIn(s) : air_data.rows[i][p] # NA}

RECURSIVE Total(_, _)
Total(I, p) ==
    IF I = {} THEN 0
    ELSE LET i == CHOOSE k \in I : TRUE
         IN  Get(air_data.rows[i][p]) + Total(I \ {i}, p)

IsMeanOf(avg, s, p) ==
    IF WithValue(s, p) = {}
    THEN avg = NaN /\ ~FloatEq(avg, 0)
    ELSE /\ Cardinality(avg) = 1
         /\ \A q \in avg :
              q[1] * Cardinality(WithValue(s, p)) = q[2] * Total(WithValue(s, p), p)

AveragesAreMeans ==
    /\ \A a \in seasonal_avg :
         /\ DOMAIN a.mean = {s \in SeqToSet(ReportSeasons) : RowsIn(s) # {}}
         /\ \A s \in DOMAIN a.mean : \A p \in SeqToSet(pollutants) :
              IsMeanOf(a.mean[s][p], s, p)
    /\ \A x \in report : \A k \in 1..Len(x.seasonal) :
         \A j \in 1..Len(x.seasonal[k].lines) :
            IsMeanOf(x.seasonal[k].lines[j].average, x.seasonal[k].season,
                     x.seasonal[k].lines[j].pollutant)

\* C8 as stated: every seasonal average is the mean of the non-missing
\* values, and a pollutant without any value in a season that has records is
\* reported in the report as undefined, not skipped.
C8_UndefinedReportedExplicitly ==
    /\ AveragesAreMeans
    /\ \A x \in report : \A k \in 1..Len(x.seasonal) :
         \A p \in SeqToSet(pollutants) :
            (RowsIn(x.seasonal[k].season) # {} /\ WithValue(x.seasonal[k].season, p) = {})
            => \E j \in 1..Len(x.seasonal[k].lines) :
                  /\ x.seasonal[k].lines[j].pollutant = p
                  /\ x.seasonal[k].lines[j].average = NaN

\* C8 as amended: every seasonal average is the mean of the non-missing
\* values, undefined (never 0) when there is none; a report that is written
\* has, per season, a line for exactly the pollutants with a defined
\* average, in pollutant order, and no line for the others.
C8_UndefinedAverageOmitted ==
    /\ AveragesAreMeans
    /\ \A x \in report : \A k \in 1..Len(x.seasonal) :
         LET has(p) == WithValue(x.seasonal[k].season, p) # {}
         IN  [j \in 1..Len(x.seasonal[k].lines) |-> x.seasonal[k].lines[j].pollutant]
                 = SelectSeq(pollutants, has)

C8_Witness ==
    /\ pc = "done"
    /\ \E x \in report : \E k \in 1..Len(x.seasonal) :
         /\ RowsIn(x.seasonal[k].season) # {}
         /\ WithValue(x.seasonal[k].season, "pm10") = {}
         /\ WithValue(x.seasonal[k].season, "pm25") # {}
         /\ Len(x.seasonal[k].lines) = 3

InLongGap(d) ==
    \E a \in 1..d : \E b \in d..MaxDay + 1 :
        /\ b - a + 1 > 7
        /\ \A k \in a..b : k \notin DOMAIN obs

\* C9: the dense series covers every day from the first to the last observed
\* day, and a day inside a run of more than 7 consecutive missing days stays
\* undefined after filling.
C9_LongGapsStayUndefined ==
    \A f \in filled :
        /\ DOMAIN f = {d \in 1..MaxDay + 1 :
                          /\ \E a \in DOMAIN obs : a <= d
                          /\ \E b \in DOMAIN obs : d <= b}
        /\ \A d \in DOMAIN f : InLongGap(d) => f[d] = NaN

C9_Witness ==
    \E f \in filled : \E d \in DOMAIN f : InLongGap(d) /\ f[d] = NaN

Project(t) ==
    [cols |-> SubSeq(t.cols, 1, Len(CanonicalCols)),
     rows |-> [i \in 1..Len(t.rows) |-> Restrict(t.rows[i], SeqToSet(CanonicalCols))]]

\* C10 as stated: the table the report stage receives is identical to the
\* one the loader produced.
C10_TableUnchanged ==
    pc = "report" => air_data = LoadResult(rawRows)

\* C10 as amended: no later stage changes the rows or the values of the
\* columns date, pm25, pm10, o3, no2 of the loader's table, but the chart
\* stage adds the columns month, month_name and season to that same table,
\* so the report stage receives the loader's table with these three columns
\* appended (and overwrites season with the same values).
C10_CanonicalColumnsUnchanged ==
    Loaded =>
        /\ Project(air_data) = LoadResult(rawRows)
        /\ pc \in {"summary", "timeseries", "joyplot"} =>
              air_data.cols = CanonicalCols
        /\ pc = "seasonal" =>
              air_data.cols = CanonicalCols \o <<"month", "month_name">>
        /\ pc \in {"report", "finish", "done", "aborted"} =>
              air_data.cols = CanonicalCols \o <<"month", "month_name", "season">>

C10_Witness ==
    /\ pc = "report"
    /\ Len(air_data.rows) > 1
    /\ \E i \in 1..Len(air_data.rows) : air_data.rows[i]["pm25"] = NA
    /\ air_data.cols = CanonicalCols \o <<"month", "month_name", "season">>

====
